---- MODULE Spec2Model ----
(***************************************************************************)
(* Notification orchestration and deduplication engine of vgs-stars:       *)
(* app/services/notification_service.py (the immediate pass and the dedup  *)
(* gate) over app/services/database.py (the notification store).           *)
(*                                                                         *)
(* The store is two collections.  batches is the auth_notification_batches *)
(* collection in insertion order; a batch's _id is its position.  notifs   *)
(* is the auths_notification collection in insertion order.  A persistence *)
(* operation is one action: its statements are run in order by an operator *)
(* that takes the point where the store driver raises (failAt, 0 = none),  *)
(* with writes made under session= staged until the transaction commits.   *)
(***************************************************************************)
EXTENDS Integers, Sequences, FiniteSets, TLC

\* ---------------------------------------------------------------- bounds
\* The store holds at most MaxBatches batches and MaxNotifs notifications.
MaxBatches == 2
MaxNotifs == 2
\* date.today(), as a day number; the registry's expiry dates are around it.
Today == 10

\* ------------------------------------------------------------ vocabulary
NULL == "null"
PENDING == "pending"
SENT == "sent"
FAILED == "failed"
NotificationStatus == {PENDING, SENT, FAILED}
EXPIRING_SOON == "expiring_soon"
EXPIRED == "expired"

\* The passes.  Spec runs one pass at a time, always as p1.
Passes == {"p1", "p2"}
Sequential == {"p1"}

\* ------------------------------------------------- the registry (STARS)
\* An optional value (x | None): None is the empty sequence, x is <<x>>.
None == <<>>
Some(x) == <<x>>

\* The Auth records the registry can return: id, resourceId, expiry (an
\* optional date).  R:A has one record that expires tomorrow and one that
\* expired yesterday, R:B one that expires today and one without expiry
\* date.
Registry ==
    { [id |-> 101, resource_id |-> "R:A", expiry |-> Some(Today + 1)],
      [id |-> 102, resource_id |-> "R:A", expiry |-> Some(Today - 1)],
      [id |-> 103, resource_id |-> "R:B", expiry |-> Some(Today)],
      [id |-> 104, resource_id |-> "R:B", expiry |-> None] }
AuthIds == {a.id : a \in Registry}
ResourceIds == {a.resource_id : a \in Registry}

\* get_user_from_resource: the User of a resource (person -> user).
get_user_from_resource(resource_id) ==
    [id |-> <<"user", resource_id>>, email |-> <<"mail", resource_id>>]

\* What get_expiring_auths_by_date can return: the registry's records, any
\* of them, each once, in any order.
FetchResults ==
    UNION { { s \in [1..n -> Registry] : \A i, j \in 1..n : i # j => s[i] # s[j] }
            : n \in 0..Cardinality(Registry) }

\* ------------------------------------------------------- pure functions
RECURSIVE GroupLoop(_, _)
GroupLoop(auths, groups) ==
    IF auths = <<>> THEN groups
    ELSE LET auth == Head(auths)
             at == {k \in 1..Len(groups) : groups[k].key = auth.resource_id}
         IN  GroupLoop(Tail(auths),
                 IF at = {}
                 THEN Append(groups, [key |-> auth.resource_id, auths |-> <<auth>>])
                 ELSE LET k == CHOOSE k \in at : TRUE
                      IN  [groups EXCEPT ![k].auths = Append(@, auth)])

\* A grouping that leaves out the records without resource id.
MutGroupSkipsEmptyKey(auths) ==
    GroupLoop(SelectSeq(auths, LAMBDA auth : auth.resource_id # ""), <<>>)

\* group_auths_by_person: the dict as its items() in insertion order.
group_auths_by_person(auths) == GroupLoop(auths, <<>>)

\* database.get_notifications_for_auth: find({"authId": auth_id}).
get_notifications_for_auth(store, auth_id) ==
    SelectSeq(store, LAMBDA n : n.authId = auth_id)

RECURSIVE GateLoop(_)
GateLoop(existing) ==
    IF existing = <<>> THEN TRUE
    ELSE IF Head(existing).status \in {SENT, PENDING} THEN FALSE
    ELSE GateLoop(Tail(existing))

\* A gate that only looks for a sent entry (the narrower policy).
MutGateSentOnly(store, auth) ==
    \A i \in 1..Len(store) : store[i].authId = auth.id => store[i].status # SENT

\* A gate that any earlier attempt closes, a failed one too.
MutGateAnyEntry(store, auth) == get_notifications_for_auth(store, auth.id) = <<>>

\* should_send_notification: the dedup gate.
should_send_notification(store, auth) ==
    GateLoop(get_notifications_for_auth(store, auth.id))

\* A filter that keeps the first record that passes the gate, and no other.
MutKeepFirstOwed(store, person_auths) ==
    LET owed == SelectSeq(person_auths, LAMBDA auth : should_send_notification(store, auth))
    IN  IF owed = <<>> THEN <<>> ELSE <<Head(owed)>>

\* A filter that keeps every record.
MutKeepAll(store, person_auths) == person_auths

\* The list comprehension of the pass: the records that pass the gate.
auths_to_notify_of(store, person_auths) ==
    SelectSeq(person_auths, LAMBDA auth : should_send_notification(store, auth))

\* A classification that counts a record expiring today as expired.
MutTypeOnOrBefore(auths) ==
    IF \E i \in 1..Len(auths) : auths[i].expiry # None /\ auths[i].expiry[1] <= Today
    THEN EXPIRED ELSE EXPIRING_SOON

\* has_expired / notification_type of the pass.
notification_type_of(auths) ==
    IF \E i \in 1..Len(auths) : auths[i].expiry # None /\ auths[i].expiry[1] < Today
    THEN EXPIRED ELSE EXPIRING_SOON

RECURSIVE SummaryLoop(_)
SummaryLoop(auths) ==
    IF auths = <<>> THEN <<>>
    ELSE IF Head(auths).expiry # None
         THEN <<[authId |-> Head(auths).id, expiryDate |-> Head(auths).expiry[1]]>>
              \o SummaryLoop(Tail(auths))
         ELSE SummaryLoop(Tail(auths))

\* auth_summaries of create_notification_batch: records with an expiry.
auth_summaries_of(auths) == SummaryLoop(auths)

\* A batch whose subject counts every record handed in.
MutBatchCountsAll(resource_id, auths, user, notification_type) ==
    LET auth_summaries == auth_summaries_of(auths)
        auth_count == Len(auths)
    IN  [userId |-> user.id,
         userEmail |-> user.email,
         resourceId |-> resource_id,
         notificationType |-> notification_type,
         subject |-> [kind |-> notification_type, count |-> auth_count,
                      plural |-> auth_count # 1],
         sentAt |-> NULL,
         status |-> PENDING,
         error |-> NULL,
         auths |-> auth_summaries]

\* create_notification_batch: a pending batch for one person.
create_notification_batch(resource_id, auths, user, notification_type) ==
    LET auth_summaries == auth_summaries_of(auths)
        auth_count == Len(auth_summaries)
    IN  [userId |-> user.id,
         userEmail |-> user.email,
         resourceId |-> resource_id,
         notificationType |-> notification_type,
         subject |-> [kind |-> notification_type, count |-> auth_count,
                      plural |-> auth_count # 1],
         sentAt |-> NULL,
         status |-> PENDING,
         error |-> NULL,
         auths |-> auth_summaries]

\* --------------------------------------------------- the store (MongoDB)
\* A transaction over the two collections: batches/notifs are what every
\* other reader sees, sbatches/snotifs what the session sees (the snapshot
\* plus its own writes).
start_transaction(bs, ns) ==
    [batches |-> bs, notifs |-> ns, sbatches |-> bs, snotifs |-> ns]

\* Leaving the with-block normally commits: the session's writes show.
commit_transaction(tx) == [batches |-> tx.sbatches, notifs |-> tx.snotifs]

\* Leaving the with-block by an exception aborts: the session's writes go.
abort_transaction(tx) == [batches |-> tx.batches, notifs |-> tx.notifs]

\* An insert that forgets session=session: it reaches the collection at once.
MutInsertNotifNoSession(tx, doc) ==
    [tx EXCEPT !.notifs = Append(@, doc), !.snotifs = Append(@, doc)]

\* notif_col.insert_one(notif_doc, session=session)
insert_notif_in_session(tx, doc) == [tx EXCEPT !.snotifs = Append(@, doc)]

\* batch_col.insert_one(batch_doc, session=session)
insert_batch_in_session(tx, doc) == [tx EXCEPT !.sbatches = Append(@, doc)]

\* An update that also empties the record summaries of the document.
MutSetClearsSummaries(doc, status, sent_at, error) ==
    [doc EXCEPT !.status = status, !.sentAt = sent_at, !.error = error,
                !.auths = <<>>]

\* {"$set": {"status": ..., "sentAt": ..., "error": ...}} on one document.
set_update_fields(doc, status, sent_at, error) ==
    [doc EXCEPT !.status = status, !.sentAt = sent_at, !.error = error]

\* update_one({"_id": object_id}, {"$set": update_fields}) on a collection:
\* a filter that matches no document changes nothing and raises nothing.
update_one(coll, batch_id, status, sent_at, error) ==
    IF batch_id \in 1..Len(coll)
    THEN [coll EXCEPT ![batch_id] = set_update_fields(@, status, sent_at, error)]
    ELSE coll

\* An insert that replaces the earlier documents of the same authId.
MutInsertManyUpsert(coll, docs) ==
    SelectSeq(coll, LAMBDA n : \A i \in 1..Len(docs) : docs[i].authId # n.authId) \o docs

\* notif_col.insert_many(notif_docs): the documents are appended in order.
insert_many(coll, docs) == coll \o docs

\* ObjectId(batch_id) raises for a malformed id; 0 stands for such an id.
MalformedId == 0
IsObjectId(batch_id) == batch_id # MalformedId

\* The outcome of a persistence operation: the collections afterwards,
\* whether it raised, and what it returned.
Outcome(bs, ns, raised, ret) ==
    [batches |-> bs, notifs |-> ns, raised |-> raised, ret |-> ret]

RECURSIVE NotifInsertLoop(_, _, _, _, _)
\* for notification in notifications: insert_one(..., session=session);
\* the k-th statement of the transaction raises when failAt = k.
NotifInsertLoop(tx, notifications, k, failAt, notif_ids) ==
    IF notifications = <<>> THEN [tx |-> tx, raised |-> FALSE, ids |-> notif_ids]
    ELSE IF failAt = k THEN [tx |-> tx, raised |-> TRUE, ids |-> notif_ids]
    ELSE NotifInsertLoop(insert_notif_in_session(tx, Head(notifications)),
                         Tail(notifications), k + 1, failAt,
                         Append(notif_ids, Len(tx.snotifs) + 1))

\* The document of a Notification, with the batch it was written with.
notif_doc(notification, batch_id) ==
    [authId |-> notification.authId, status |-> notification.status,
     batch |-> batch_id]

\* save_notification_with_batch (create-with-siblings).  Statement 1 is the
\* batch insert, statements 2..N+1 the notification inserts, N+2 the commit.
save_notification_with_batch(bs, ns, batch, notifications, failAt) ==
    LET tx0 == start_transaction(bs, ns)
        batch_id == Len(bs) + 1
        docs == [i \in 1..Len(notifications) |-> notif_doc(notifications[i], batch_id)]
    IN  IF failAt = 1
        THEN LET s == abort_transaction(tx0)
             IN  Outcome(s.batches, s.notifs, TRUE, NULL)
        ELSE LET tx1 == insert_batch_in_session(tx0, batch)
                 r == NotifInsertLoop(tx1, docs, 2, failAt, <<>>)
             IN  IF r.raised \/ failAt = Len(notifications) + 2
                 THEN LET s == abort_transaction(r.tx)
                      IN  Outcome(s.batches, s.notifs, TRUE, NULL)
                 ELSE LET s == commit_transaction(r.tx)
                      IN  Outcome(s.batches, s.notifs, FALSE,
                                  [batch_id |-> batch_id, notif_ids |-> r.ids])

\* save_notification_batch: one insert_one outside any transaction.
save_notification_batch(bs, ns, batch, failAt) ==
    IF failAt = 1 THEN Outcome(bs, ns, TRUE, NULL)
    ELSE Outcome(Append(bs, batch), ns, FALSE, Len(bs) + 1)

\* get_notification_batch: find_one({"_id": object_id}), None when the id
\* is malformed or unknown.
get_notification_batch(bs, batch_id) ==
    IF IsObjectId(batch_id) /\ batch_id \in 1..Len(bs) THEN Some(bs[batch_id])
    ELSE None

\* finalise_notification_batch (finalize-with-siblings).  Statement 1 is
\* the update_one, statement 2 the insert_many, statement 3 the commit.
finalise_notification_batch(bs, ns, batch_id, status, sent_at, error, notifications, failAt) ==
    IF ~IsObjectId(batch_id) THEN Outcome(bs, ns, TRUE, NULL)
    ELSE LET tx0 == start_transaction(bs, ns)
             docs == [i \in 1..Len(notifications) |-> notif_doc(notifications[i], batch_id)]
         IN  IF failAt = 1
             THEN LET s == abort_transaction(tx0)
                  IN  Outcome(s.batches, s.notifs, TRUE, NULL)
             ELSE LET tx1 == [tx0 EXCEPT !.sbatches =
                                  update_one(@, batch_id, status, sent_at, error)]
                      tx2 == IF notifications # <<>> /\ failAt # 2
                             THEN [tx1 EXCEPT !.snotifs = insert_many(@, docs)]
                             ELSE tx1
                  IN  IF (notifications # <<>> /\ failAt = 2) \/ failAt = 3
                      THEN LET s == abort_transaction(tx2)
                           IN  Outcome(s.batches, s.notifs, TRUE, NULL)
                      ELSE LET s == commit_transaction(tx2)
                           IN  Outcome(s.batches, s.notifs, FALSE, NULL)

\* update_notification_batch: False for a malformed id, else one update_one
\* outside any transaction; True when a batch was matched.
update_notification_batch(bs, ns, batch_id, status, sent_at, error, failAt) ==
    IF ~IsObjectId(batch_id) THEN Outcome(bs, ns, FALSE, FALSE)
    ELSE IF failAt = 1 THEN Outcome(bs, ns, TRUE, NULL)
    ELSE Outcome(update_one(bs, batch_id, status, sent_at, error), ns, FALSE,
                 batch_id \in 1..Len(bs))

\* ------------------------------------------------------------- the state
VARIABLES
    batches,        \* the notification batches collection, by _id
    notifs,         \* the notifications collection, in insertion order
    pass,           \* per pass: the locals of check_and_notify_expiring_auths
    lastCall,       \* what the save_notification_with_batch call just
                    \* made left for its caller
    tasks           \* the Cloud Tasks queue: the tasks created, in order

vars == <<batches, notifs, pass, lastCall, tasks>>

\* The locals of a pass that is not running.  trace lists the steps of the
\* pass in order, saved the ids save_notification_batch returned to it, and
\* fetch how the registry fetch ended ("returned" or "raised"), queued the
\* positions in tasks of the tasks a deferred pass created.
IdlePass ==
    [pc |-> "idle", expiring_auths |-> <<>>, i |-> 0, user |-> NULL,
     auths_to_notify |-> <<>>, batch |-> NULL,
     notifications_sent |-> 0, notifications_failed |-> 0, errors |-> <<>>,
     result |-> NULL, trace |-> <<>>, saved |-> <<>>, fetch |-> NULL,
     queued |-> <<>>]

NoCall == [op |-> "none", raised |-> FALSE, ret |-> NULL]

Init ==
    /\ batches = <<>>
    /\ notifs = <<>>
    /\ pass = [p \in Passes |-> IdlePass]
    /\ lastCall = NoCall
    /\ tasks = <<>>

\* ------------------------------------------------- the immediate pass
\* No pass is running and no result waits for its caller.
Quiet == \A p \in Passes : pass[p].pc = "idle"

\* auths_by_person of pass p, and the group the loop is at.
GroupsOf(p) == group_auths_by_person(pass[p].expiring_auths)
CurrentGroup(p) == GroupsOf(p)[pass[p].i]

AuthIdsOf(summaries) == {summaries[k].authId : k \in 1..Len(summaries)}

\* The dict check_and_notify_expiring_auths returns.
ResultOf(success, sent, failed, total, users, errors) ==
    [success |-> success,
     notifications_sent |-> sent,
     notifications_failed |-> failed,
     summary |-> [total_expiring_auths |-> total, users_notified |-> users,
                  emails_sent |-> sent],
     errors |-> errors]

\* A zero dict that reports the empty fetch as a failure.
MutZeroResultFailure == ResultOf(FALSE, 0, 0, 0, 0, <<>>)

\* Lines 166-178: the dict returned when the registry has no records.
ZeroResult == ResultOf(TRUE, 0, 0, 0, 0, <<>>)

\* A failure dict that loses the exception message.
MutFatalResultNoMessage(message) == ResultOf(FALSE, 0, 0, 0, 0, <<>>)

\* Lines 267-279: the dict returned by the outer except, errors = [str(e)].
FatalResult(message) == ResultOf(FALSE, 0, 0, 0, 0, <<message>>)

\* str(e) of the StarsAPIError get_expiring_auths_by_date raises.
FetchError == [kind |-> "fatal", who |-> "registry"]

\* Lines 162-181: the registry fetch.  It raises (the outer except returns
\* the failure dict), returns nothing (the zero dict) or returns records.
StartPass(p, results) ==
    /\ pass[p].pc = "idle"
    /\ \/ pass' = [pass EXCEPT ![p] = [IdlePass EXCEPT
                      !.pc = "done", !.fetch = "raised",
                      !.result = FatalResult(FetchError)]]
       \/ \E auths \in results :
             /\ Len(batches) + Len(group_auths_by_person(auths)) <= MaxBatches
             /\ pass' = [pass EXCEPT ![p] =
                   IF auths = <<>>
                   THEN [IdlePass EXCEPT !.pc = "done", !.fetch = "returned",
                                         !.result = ZeroResult]
                   ELSE [IdlePass EXCEPT !.pc = "loop", !.fetch = "returned",
                                         !.expiring_auths = auths, !.i = 1]]

\* The fetch of a pass over one of `results`; the store is not touched.
FetchFrom(p, results) ==
    /\ StartPass(p, results)
    /\ lastCall' = NoCall
    /\ UNCHANGED <<batches, notifs, tasks>>

\* A pass over whatever the registry returns.
Fetch(p) == FetchFrom(p, FetchResults)

\* A per-person except that, after a failed dedup read, sends for all the
\* person's records.
MutProcessFailureSendsAnyway(p, step) ==
    LET resource_id == CurrentGroup(p).key
    IN  IF step = "gate"
        THEN [pass[p] EXCEPT
                !.pc = "gated", !.auths_to_notify = CurrentGroup(p).auths,
                !.trace = Append(@, [ev |-> step, rid |-> resource_id, ok |-> FALSE])]
        ELSE [pass[p] EXCEPT
                !.pc = "loop", !.i = @ + 1, !.user = NULL,
                !.auths_to_notify = <<>>, !.batch = NULL,
                !.notifications_failed = @ + 1,
                !.errors = Append(@, [kind |-> "process", who |-> resource_id]),
                !.trace = Append(@, [ev |-> step, rid |-> resource_id, ok |-> FALSE])]

\* A per-person except that stays at the person who failed.
MutProcessFailureRetries(p, step) ==
    LET resource_id == CurrentGroup(p).key
    IN  [pass[p] EXCEPT
            !.pc = "loop", !.user = NULL,
            !.auths_to_notify = <<>>, !.batch = NULL,
            !.notifications_failed = @ + 1,
            !.errors = Append(@, [kind |-> "process", who |-> resource_id]),
            !.trace = Append(@, [ev |-> step, rid |-> resource_id, ok |-> FALSE])]

\* A per-person except that records the error without counting it.
MutProcessFailureNoCount(p, step) ==
    LET resource_id == CurrentGroup(p).key
    IN  [pass[p] EXCEPT
            !.pc = "loop", !.i = @ + 1, !.user = NULL,
            !.auths_to_notify = <<>>, !.batch = NULL,
            !.errors = Append(@, [kind |-> "process", who |-> resource_id]),
            !.trace = Append(@, [ev |-> step, rid |-> resource_id, ok |-> FALSE])]

\* Lines 241-245: the per-person except.  The person counts as failed, one
\* error string naming the resource id is added, the loop goes on.
ProcessFailure(p, step) ==
    LET resource_id == CurrentGroup(p).key
    IN  [pass[p] EXCEPT
            !.pc = "loop", !.i = @ + 1, !.user = NULL,
            !.auths_to_notify = <<>>, !.batch = NULL,
            !.notifications_failed = @ + 1,
            !.errors = Append(@, [kind |-> "process", who |-> resource_id]),
            !.trace = Append(@, [ev |-> step, rid |-> resource_id, ok |-> FALSE])]

\* Line 195: stars_client.get_user_from_resource(resource_id).
Resolve(p) ==
    /\ pass[p].pc = "loop"
    /\ pass[p].i <= Len(GroupsOf(p))
    /\ LET resource_id == CurrentGroup(p).key
       IN  \/ pass' = [pass EXCEPT ![p] = [@ EXCEPT
                          !.pc = "resolved",
                          !.user = get_user_from_resource(resource_id),
                          !.trace = Append(@, [ev |-> "resolve", rid |-> resource_id,
                                               ok |-> TRUE])]]
           \/ pass' = [pass EXCEPT ![p] = ProcessFailure(p, "resolve")]
    /\ UNCHANGED <<batches, notifs, lastCall, tasks>>

\* Lines 197-206: the person's records through the dedup gate; nothing left
\* skips the person.  A store read that raises lands in the per-person except.
Gate(p) ==
    /\ pass[p].pc = "resolved"
    /\ LET g == CurrentGroup(p)
           kept == auths_to_notify_of(notifs, g.auths)
       IN  \/ pass' = [pass EXCEPT ![p] =
                  IF kept = <<>>
                  THEN [@ EXCEPT !.pc = "loop", !.i = @ + 1, !.user = NULL,
                                 !.trace = Append(@, [ev |-> "skip", rid |-> g.key,
                                                      ok |-> TRUE])]
                  ELSE [@ EXCEPT !.pc = "gated", !.auths_to_notify = kept,
                                 !.trace = Append(@, [ev |-> "gate", rid |-> g.key,
                                                      ok |-> TRUE])]]
           \/ pass' = [pass EXCEPT ![p] = ProcessFailure(p, "gate")]
    /\ UNCHANGED <<batches, notifs, lastCall, tasks>>

\* A send step that tries again when the email service raises.
MutSendRetries(p) ==
    /\ pass[p].pc = "gated"
    /\ LET g == CurrentGroup(p)
           user == pass[p].user
           kept == pass[p].auths_to_notify
           batch == create_notification_batch(g.key, kept, user,
                                              notification_type_of(kept))
           ids == AuthIdsOf(batch.auths)
       IN  \/ pass' = [pass EXCEPT ![p] = [@ EXCEPT
                          !.pc = "sent",
                          !.batch = [batch EXCEPT !.status = SENT, !.sentAt = "now"],
                          !.notifications_sent = @ + 1,
                          !.trace = Append(@, [ev |-> "send", rid |-> g.key,
                                               ok |-> TRUE, auths |-> ids])]]
           \/ pass' = [pass EXCEPT ![p] = [@ EXCEPT
                          !.trace = Append(@, [ev |-> "send", rid |-> g.key,
                                               ok |-> FALSE, auths |-> ids])]]
    /\ UNCHANGED <<batches, notifs, lastCall, tasks>>

\* Lines 208-236: classify, build the batch, send the email.
Send(p) ==
    /\ pass[p].pc = "gated"
    /\ LET g == CurrentGroup(p)
           user == pass[p].user
           kept == pass[p].auths_to_notify
           batch == create_notification_batch(g.key, kept, user,
                                              notification_type_of(kept))
           ids == AuthIdsOf(batch.auths)
       IN  \/ pass' = [pass EXCEPT ![p] = [@ EXCEPT
                          !.pc = "sent",
                          !.batch = [batch EXCEPT !.status = SENT, !.sentAt = "now"],
                          !.notifications_sent = @ + 1,
                          !.trace = Append(@, [ev |-> "send", rid |-> g.key,
                                               ok |-> TRUE, auths |-> ids])]]
           \/ pass' = [pass EXCEPT ![p] = [@ EXCEPT
                          !.pc = "sent",
                          !.batch = [batch EXCEPT !.status = FAILED,
                                                  !.error = "EmailServiceError"],
                          !.notifications_failed = @ + 1,
                          !.errors = Append(@, [kind |-> "send", who |-> user.email]),
                          !.trace = Append(@, [ev |-> "send", rid |-> g.key,
                                               ok |-> FALSE, auths |-> ids])]]
    /\ UNCHANGED <<batches, notifs, lastCall, tasks>>

\* A persist step that keeps sent batches only.
MutPersistSentOnly(bs, ns, batch, failAt) ==
    IF batch.status = SENT THEN save_notification_batch(bs, ns, batch, failAt)
    ELSE Outcome(bs, ns, FALSE, 0)

\* A persist step that saves the batch as it was built, pending.
MutPersistAsBuilt(bs, ns, batch, failAt) ==
    save_notification_batch(bs, ns,
        [batch EXCEPT !.status = PENDING, !.sentAt = NULL, !.error = NULL], failAt)

\* What the pass hands to the store for its batch: the result of
\* database.save_notification_batch(batch), line 239.
persist_batch(bs, ns, batch, failAt) == save_notification_batch(bs, ns, batch, failAt)

\* Lines 238-239: save the batch, whatever the send outcome.
Persist(p) ==
    /\ pass[p].pc = "sent"
    /\ \E failAt \in 0..1 :
          LET g == CurrentGroup(p)
              batch == pass[p].batch
              r == persist_batch(batches, notifs, batch, failAt)
          IN  /\ batches' = r.batches
              /\ notifs' = r.notifs
              /\ IF r.raised
                 THEN pass' = [pass EXCEPT ![p] = ProcessFailure(p, "persist")]
                 ELSE pass' = [pass EXCEPT ![p] = [@ EXCEPT
                           !.pc = "loop", !.i = @ + 1, !.user = NULL,
                           !.auths_to_notify = <<>>, !.batch = NULL,
                           !.saved = Append(@, r.ret),
                           !.trace = Append(@, [ev |-> "persist", rid |-> g.key,
                                                ok |-> TRUE])]]
    /\ UNCHANGED <<lastCall, tasks>>

\* A summary that counts the records where it should count the persons.
MutReturnCountsRecords(p) ==
    /\ pass[p].pc = "loop"
    /\ pass[p].i > Len(GroupsOf(p))
    /\ pass' = [pass EXCEPT ![p] = [@ EXCEPT
                   !.pc = "done",
                   !.result = ResultOf(TRUE, pass[p].notifications_sent,
                                  pass[p].notifications_failed,
                                  Len(pass[p].expiring_auths),
                                  Len(pass[p].expiring_auths),
                                  pass[p].errors)]]
    /\ UNCHANGED <<batches, notifs, lastCall, tasks>>

\* A return that reports success only when no person failed.
MutReturnSuccessIfClean(p) ==
    /\ pass[p].pc = "loop"
    /\ pass[p].i > Len(GroupsOf(p))
    /\ pass' = [pass EXCEPT ![p] = [@ EXCEPT
                   !.pc = "done",
                   !.result = ResultOf(pass[p].errors = <<>>,
                                  pass[p].notifications_sent,
                                  pass[p].notifications_failed,
                                  Len(pass[p].expiring_auths), Len(GroupsOf(p)),
                                  pass[p].errors)]]
    /\ UNCHANGED <<batches, notifs, lastCall, tasks>>

\* Lines 247-265: the summary.
Return(p) ==
    /\ pass[p].pc = "loop"
    /\ pass[p].i > Len(GroupsOf(p))
    /\ pass' = [pass EXCEPT ![p] = [@ EXCEPT
                   !.pc = "done",
                   !.result = ResultOf(TRUE, pass[p].notifications_sent,
                                  pass[p].notifications_failed,
                                  Len(pass[p].expiring_auths), Len(GroupsOf(p)),
                                  pass[p].errors)]]
    /\ UNCHANGED <<batches, notifs, lastCall, tasks>>

\* The route hands the result dict to its caller; the pass is over.
Ack(p) ==
    /\ pass[p].pc = "done"
    /\ pass' = [pass EXCEPT ![p] = IdlePass]
    /\ UNCHANGED <<batches, notifs, lastCall, tasks>>

\* ------------------------------- direct calls of the persistence operations
\* database.py's operations other than save_notification_batch are not
\* called by the immediate pass; they are called here with the arguments
\* an orchestrator hands them: a batch built by create_notification_batch
\* and one Notification per summary of that batch.

\* The fetches the callers of the store API build their batches from: the
\* registry's first record alone, or all its records, in id order.
CallerFetches ==
    {f \in FetchResults :
        /\ Len(f) \in {1, Cardinality(Registry)}
        /\ \A i, j \in 1..Len(f) : i < j => f[i].id < f[j].id
        /\ \A a \in Registry : f[1].id <= a.id}

\* The batches create_notification_batch builds for the persons of those
\* fetches.
BuiltBatches ==
    { create_notification_batch(g.key, g.auths, get_user_from_resource(g.key),
                                notification_type_of(g.auths)) :
        g \in UNION { {group_auths_by_person(f)[k] :
                         k \in 1..Len(group_auths_by_person(f))} :
                      f \in CallerFetches } }

\* The batch as it is when its outcome is known.
WithStatus(batch, status) ==
    [batch EXCEPT !.status = status,
                  !.sentAt = IF status = SENT THEN "now" ELSE NULL,
                  !.error = IF status = FAILED THEN "EmailServiceError" ELSE NULL]

\* One Notification per summary of the batch, with the given status.
SiblingsOf(batch, status) ==
    [k \in 1..Len(batch.auths) |->
        [authId |-> batch.auths[k].authId, status |-> status]]

\* What a direct call leaves for its caller: an exception or a value.
CallOf(op, r) == [op |-> op, raised |-> r.raised, ret |-> r.ret]

\* save_notification_with_batch(batch, notifications)
CallSaveWithBatch ==
    /\ Quiet
    /\ Len(batches) < MaxBatches
    /\ \E built \in BuiltBatches, status \in NotificationStatus :
          LET batch == WithStatus(built, status)
              notifications == SiblingsOf(batch, status)
          IN  /\ Len(notifs) + Len(notifications) <= MaxNotifs
              /\ \E failAt \in 0..(Len(notifications) + 2) :
                    LET r == save_notification_with_batch(batches, notifs, batch,
                                                          notifications, failAt)
                    IN  /\ batches' = r.batches
                        /\ notifs' = r.notifs
                        /\ lastCall' = CallOf("save_notification_with_batch", r)
    /\ UNCHANGED <<pass, tasks>>

\* save_notification_batch(batch): a pending batch (create-pending) or one
\* whose outcome is known.
CallSaveBatch ==
    /\ Quiet
    /\ Len(batches) < MaxBatches
    /\ \E built \in BuiltBatches, status \in NotificationStatus, failAt \in 0..1 :
          LET r == save_notification_batch(batches, notifs,
                                           WithStatus(built, status), failAt)
          IN  /\ batches' = r.batches
              /\ notifs' = r.notifs
              /\ lastCall' = NoCall
    /\ UNCHANGED <<pass, tasks>>

\* The batch ids a caller can hand over: a malformed one, those of the
\* stored batches, and one no batch has.
BatchIdArgs == {MalformedId} \cup (1..(Len(batches) + 1))

\* finalise_notification_batch(batch_id, status, sent_at, error, notifications)
\* for a stored batch, with a final status and the notifications of that batch.
CallFinalise ==
    /\ Quiet
    /\ \E batch_id \in 1..Len(batches), status \in {SENT, FAILED},
          failAt \in 0..3 :
             LET of == get_notification_batch(batches, batch_id)[1]
                 done == WithStatus(of, status)
                 notifications == SiblingsOf(of, status)
                 r == finalise_notification_batch(batches, notifs, batch_id, status,
                          done.sentAt, done.error, notifications, failAt)
             IN  /\ Len(notifs) + Len(notifications) <= MaxNotifs
                 /\ batches' = r.batches
                 /\ notifs' = r.notifs
                 /\ lastCall' = NoCall
    /\ UNCHANGED <<pass, tasks>>

\* finalise_notification_batch(batch_id, status, sent_at, error, notifications)
\* with any batch id, a stored one or not, and the notifications of a batch
\* the caller holds.
CallFinaliseAny ==
    /\ Quiet
    /\ \E batch_id \in BatchIdArgs, built \in BuiltBatches, status \in {SENT, FAILED},
          failAt \in 0..3 :
             LET done == WithStatus(built, status)
                 notifications == SiblingsOf(built, status)
                 r == finalise_notification_batch(batches, notifs, batch_id, status,
                          done.sentAt, done.error, notifications, failAt)
             IN  /\ Len(notifs) + Len(notifications) <= MaxNotifs
                 /\ batches' = r.batches
                 /\ notifs' = r.notifs
                 /\ lastCall' = [op |-> "finalise_notification_batch",
                                 raised |-> r.raised, ret |-> r.ret,
                                 batch_id |-> batch_id]
    /\ UNCHANGED <<pass, tasks>>

\* update_notification_batch(batch_id, status, sent_at, error)
CallUpdate ==
    /\ Quiet
    /\ \E batch_id \in BatchIdArgs, status \in NotificationStatus, failAt \in 0..1 :
          LET done == WithStatus([status |-> status, sentAt |-> NULL, error |-> NULL],
                                 status)
              r == update_notification_batch(batches, notifs, batch_id, status,
                       done.sentAt, done.error, failAt)
          IN  /\ batches' = r.batches
              /\ notifs' = r.notifs
              /\ lastCall' = NoCall
    /\ UNCHANGED <<pass, tasks>>

\* ------------------------------------------------------ specifications
\* One pass at a time, run as p1.
PassStep ==
    \E p \in Sequential :
        \/ Fetch(p)
        \/ Resolve(p)
        \/ Gate(p)
        \/ Send(p)
        \/ Persist(p)
        \/ Return(p)
        \/ Ack(p)

\* Spec: immediate passes over a store that create-with-siblings writes
\* fill between the passes.
Next ==
    \/ PassStep
    \/ CallSaveWithBatch

Spec == Init /\ [][Next]_vars

\* SpecPasses: immediate passes alone, from the empty store.
NextPasses == PassStep

SpecPasses == Init /\ [][NextPasses]_vars

\* SpecRace: the passes of two requests served at the same time, each over
\* the registry's first record or over all its records.
RaceStep(p) ==
    \/ FetchFrom(p, CallerFetches)
    \/ Resolve(p)
    \/ Gate(p)
    \/ Send(p)
    \/ Persist(p)
    \/ Return(p)
    \/ Ack(p)

NextRace == \E p \in Passes : RaceStep(p)

SpecRace == Init /\ [][NextRace]_vars

\* SpecStore: the persistence operations of database.py, in any order.
NextStore ==
    \/ CallSaveWithBatch
    \/ CallSaveBatch
    \/ CallFinalise
    \/ CallUpdate

SpecStore == Init /\ [][NextStore]_vars

\* SpecFinalise: batches saved alone, and finalise calls with any batch id.
NextFinalise ==
    \/ CallSaveBatch
    \/ CallFinaliseAny

SpecFinalise == Init /\ [][NextFinalise]_vars

\* ------------------------------------------------- deferred dispatch
\* The deferred pass and the routine behind POST /auths/send_notification
\* (notification_service.send_notification_batch) follow the specification's
\* "Deferred dispatch variant"; the queue client, the route and the store
\* operations they use are the code's.

\* The queue holds at most this many tasks.
MaxTasks == 3

\* CloudTasksConfig.dispatch_delay_seconds, its default.
dispatch_delay_seconds == 20

\* The registry of the deferred passes: a third person, R:C, with one
\* record.
DeferredRegistry ==
    Registry \cup {[id |-> 105, resource_id |-> "R:C", expiry |-> Some(Today + 2)]}

AuthOf(id) == CHOOSE a \in DeferredRegistry : a.id = id

\* The fetches of the deferred passes: nothing, R:A's first record, both
\* records of R:A, and one record of each of the three persons.
DeferredFetches ==
    { [k \in 1..Len(ids) |-> AuthOf(ids[k])] :
        ids \in {<<>>, <<101>>, <<101, 102>>, <<101, 103, 105>>} }

\* A queue client that never sets a schedule time.
MutEnqueueNoSchedule(queue, batch_id, delay_seconds) ==
    Append(queue, [batch_id |-> batch_id, schedule_in |-> 0])

\* cloud_tasks.enqueue_send_notification: one task whose body is the batch
\* id; schedule_time (here relative to now) is set for a positive delay only.
enqueue_send_notification(queue, batch_id, delay_seconds) ==
    Append(queue, [batch_id |-> batch_id,
                   schedule_in |-> IF delay_seconds > 0 THEN delay_seconds ELSE 0])

\* The delay of the recipient at position index (0, 1, 2, ...) of a pass.
delay_for(index) == index * dispatch_delay_seconds

\* The deferred pass fetches as the immediate pass does.
FetchDeferred(p) ==
    /\ Quiet
    /\ \/ pass' = [pass EXCEPT ![p] = [IdlePass EXCEPT
                      !.pc = "done", !.fetch = "raised",
                      !.result = FatalResult(FetchError)]]
       \/ \E auths \in DeferredFetches :
             /\ Len(batches) + Len(group_auths_by_person(auths)) <= MaxTasks
             /\ pass' = [pass EXCEPT ![p] =
                   IF auths = <<>>
                   THEN [IdlePass EXCEPT !.pc = "done", !.fetch = "returned",
                                         !.result = ZeroResult]
                   ELSE [IdlePass EXCEPT !.pc = "loop", !.fetch = "returned",
                                         !.expiring_auths = auths, !.i = 1]]
    /\ lastCall' = NoCall
    /\ UNCHANGED <<batches, notifs, tasks>>

\* In place of send and persist: the batch is saved alone with status
\* pending, then its id goes to the queue with the recipient's delay.  A
\* failure of either call is that recipient's failure.
Dispatch(p) ==
    /\ pass[p].pc = "gated"
    /\ \E failAt \in 0..1 :
          LET g == CurrentGroup(p)
              kept == pass[p].auths_to_notify
              batch == create_notification_batch(g.key, kept, pass[p].user,
                                                 notification_type_of(kept))
              r == save_notification_batch(batches, notifs, batch, failAt)
          IN  /\ batches' = r.batches
              /\ notifs' = r.notifs
              /\ IF r.raised
                 THEN /\ pass' = [pass EXCEPT ![p] = ProcessFailure(p, "persist")]
                      /\ tasks' = tasks
                 ELSE \/ /\ tasks' = enqueue_send_notification(tasks, r.ret,
                                          delay_for(pass[p].i - 1))
                         /\ pass' = [pass EXCEPT ![p] = [@ EXCEPT
                               !.pc = "loop", !.i = @ + 1, !.user = NULL,
                               !.auths_to_notify = <<>>, !.batch = NULL,
                               !.notifications_sent = @ + 1,
                               !.saved = Append(@, r.ret),
                               !.queued = Append(@, Len(tasks) + 1),
                               !.trace = Append(@, [ev |-> "enqueue", rid |-> g.key,
                                                    ok |-> TRUE])]]
                      \/ /\ tasks' = tasks
                         /\ pass' = [pass EXCEPT ![p] = ProcessFailure(p, "enqueue")]
    /\ UNCHANGED lastCall

\* notification_service.send_notification_batch(batch_id): look the pending
\* batch up; without one report an error; otherwise send the email and
\* finalise the batch with one notification per summary.
send_notification_batch(bs, ns, batch_id, email_ok, failAt) ==
    LET found == get_notification_batch(bs, batch_id)
    IN  IF found = None \/ found[1].status # PENDING
        THEN [batches |-> bs, notifs |-> ns, raised |-> FALSE, emails |-> 0,
              ret |-> [success |-> FALSE, error |-> "not found"]]
        ELSE LET status == IF email_ok THEN SENT ELSE FAILED
                 done == WithStatus(found[1], status)
                 r == finalise_notification_batch(bs, ns, batch_id, status,
                          done.sentAt, done.error, SiblingsOf(found[1], status),
                          failAt)
             IN  [batches |-> r.batches, notifs |-> r.notifs,
                  raised |-> r.raised, emails |-> 1,
                  ret |-> [success |-> email_ok, error |-> done.error]]

\* A route that answers 200 whatever the routine reports.
MutRouteAlwaysOk(r) == IF r.raised THEN 500 ELSE 200

\* routes/auths.py send_notification: 500 when the routine raises, 404 when
\* its result has no success, else 200.
send_notification(r) ==
    IF r.raised THEN 500
    ELSE IF ~r.ret.success THEN 404
    ELSE 200

\* POST /auths/send_notification with a batch id, from the queue or not,
\* between two passes.
Webhook ==
    /\ Quiet
    /\ \E batch_id \in BatchIdArgs, email_ok \in BOOLEAN, failAt \in 0..3 :
          LET r == send_notification_batch(batches, notifs, batch_id, email_ok, failAt)
          IN  /\ Len(r.notifs) <= MaxNotifs
              /\ batches' = r.batches
              /\ notifs' = r.notifs
              /\ lastCall' = [op |-> "send_notification", raised |-> r.raised,
                              ret |-> send_notification(r),
                              batch_id |-> batch_id, emails |-> r.emails]
    /\ UNCHANGED <<pass, tasks>>

DeferredStep ==
    \E p \in Sequential :
        \/ FetchDeferred(p)
        \/ Resolve(p)
        \/ Gate(p)
        \/ Dispatch(p)
        \/ Return(p)
        \/ Ack(p)

\* SpecDeferred: deferred passes alone, from the empty store and the
\* empty queue.
NextDeferred == DeferredStep

SpecDeferred == Init /\ [][NextDeferred]_vars

\* SpecWebhook: webhook calls over a store that create-pending writes fill.
NextWebhook ==
    \/ CallSaveBatch
    \/ Webhook

SpecWebhook == Init /\ [][NextWebhook]_vars

\* ------------------------------------------------- the ad-hoc pass
\* The warning_days a request for one resource carries.
WarningDays == {0, 1}

\* settings.stars.org_unit_id: the unit the service is configured for.
DefaultOrgUnit == "1"

\* The unit_id a request carries: absent, the configured unit or another.
UnitArgs == {None, Some("1"), Some("2")}

\* str() of an Auth's org_unit_id, an int.
Str(org_unit_id) == IF org_unit_id = 1 THEN "1" ELSE "2"

\* The current Auth records STARS holds with their unit: the registry's
\* records, all of the configured unit, and one record of R:A in another
\* unit that expires today.
CurrentAuths ==
    { [id |-> a.id, resource_id |-> a.resource_id, expiry |-> a.expiry,
       org_unit_id |-> 1] : a \in Registry }
    \cup { [id |-> 107, resource_id |-> "R:A", expiry |-> Some(Today),
            org_unit_id |-> 2] }

\* get_eng_auths_for_user: the current records of one person, of every
\* unit, by id.
get_eng_auths_for_user(resource_id) ==
    LET own == {a \in CurrentAuths : a.resource_id = resource_id}
    IN  CHOOSE f \in [1..Cardinality(own) -> own] :
            \A i, j \in 1..Cardinality(own) : i < j => f[i].id < f[j].id

\* A filter that also asks the dedup gate.
MutExpiringWithGate(store, user_auths, expiry_date, target_org_unit_id) ==
    SelectSeq(user_auths, LAMBDA auth :
        /\ auth.expiry # None
        /\ auth.expiry[1] <= expiry_date
        /\ (target_org_unit_id = None \/ Str(auth.org_unit_id) = target_org_unit_id[1])
        /\ should_send_notification(store, auth))

\* A filter that keeps the records of every unit.
MutExpiringAnyUnit(store, user_auths, expiry_date, target_org_unit_id) ==
    SelectSeq(user_auths, LAMBDA auth :
        auth.expiry # None /\ auth.expiry[1] <= expiry_date)

\* Lines 317-327: the person's records with an expiry on or before the
\* threshold and of the target unit.  The store is not read.
expiring_auths_of(store, user_auths, expiry_date, target_org_unit_id) ==
    SelectSeq(user_auths, LAMBDA auth :
        /\ auth.expiry # None
        /\ auth.expiry[1] <= expiry_date
        /\ (target_org_unit_id = None \/ Str(auth.org_unit_id) = target_org_unit_id[1]))

\* notify_expiring_auths_for_resource: what it returns, how many emails it
\* attempted, the records the email covered and whether it asked for the
\* user.  fetch_ok, user_ok and email_ok say which collaborator calls
\* succeed.
notify_expiring_auths_for_resource(store, resource_id, unit_id, warning_days, fetch_ok, user_ok, email_ok) ==
    LET expiry_date == Today + warning_days
        target_org_unit_id == IF unit_id = None THEN Some(DefaultOrgUnit)
                              ELSE unit_id
        expiring_auths == expiring_auths_of(store,
                              get_eng_auths_for_user(resource_id), expiry_date,
                              target_org_unit_id)
        user == get_user_from_resource(resource_id)
        batch == create_notification_batch(resource_id, expiring_auths, user,
                                           notification_type_of(expiring_auths))
    IN  IF ~fetch_ok
        THEN [ret |-> FatalResult(FetchError), emails |-> 0, auths |-> {},
              resolved |-> FALSE]
        ELSE IF expiring_auths = <<>>
        THEN [ret |-> ZeroResult, emails |-> 0, auths |-> {}, resolved |-> FALSE]
        ELSE IF ~user_ok
        THEN [ret |-> FatalResult([kind |-> "fatal", who |-> resource_id]),
              emails |-> 0, auths |-> {}, resolved |-> TRUE]
        ELSE IF email_ok
        THEN [ret |-> ResultOf(TRUE, 1, 0, Len(expiring_auths), 1, <<>>),
              emails |-> 1, auths |-> AuthIdsOf(batch.auths), resolved |-> TRUE]
        ELSE [ret |-> ResultOf(TRUE, 0, 1, Len(expiring_auths), 1,
                               <<[kind |-> "send", who |-> user.email]>>),
              emails |-> 1, auths |-> AuthIdsOf(batch.auths), resolved |-> TRUE]

\* POST /auths/notify-auth-expiry/user for one resource.
AdHoc ==
    /\ Quiet
    /\ \E resource_id \in ResourceIds, unit_id \in UnitArgs,
          warning_days \in WarningDays,
          fetch_ok \in BOOLEAN, user_ok \in BOOLEAN, email_ok \in BOOLEAN :
          LET r == notify_expiring_auths_for_resource(notifs, resource_id, unit_id,
                       warning_days, fetch_ok, user_ok, email_ok)
          IN  lastCall' = [op |-> "notify_expiring_auths_for_resource",
                           raised |-> FALSE, ret |-> r.ret,
                           resource_id |-> resource_id,
                           unit_id |-> unit_id,
                           warning_days |-> warning_days,
                           ok |-> fetch_ok /\ user_ok,
                           fetched |-> fetch_ok,
                           emails |-> r.emails, auths |-> r.auths,
                           resolved |-> r.resolved]
    /\ UNCHANGED <<batches, notifs, pass, tasks>>

\* SpecAdHoc: ad-hoc passes over a store that create-with-siblings writes
\* fill.
NextAdHoc ==
    \/ CallSaveWithBatch
    \/ AdHoc

SpecAdHoc == Init /\ [][NextAdHoc]_vars

\* SpecSends: immediate passes and ad-hoc passes, one request at a time.
SendsStep ==
    \E p \in Sequential :
        \/ FetchFrom(p, CallerFetches)
        \/ Resolve(p)
        \/ Gate(p)
        \/ Send(p)
        \/ Persist(p)
        \/ Return(p)
        \/ Ack(p)

NextSends ==
    \/ SendsStep
    \/ AdHoc

SpecSends == Init /\ [][NextSends]_vars

\* ---------------------------------------------- the status transitions
\* update_notification_batch(batch_id, status, sent_at, error) with any
\* batch id, a stored one or not; the caller keeps what it returned.
CallUpdateAny ==
    /\ Quiet
    /\ \E batch_id \in BatchIdArgs, status \in NotificationStatus, failAt \in 0..1 :
          LET done == WithStatus([status |-> status, sentAt |-> NULL, error |-> NULL],
                                 status)
              r == update_notification_batch(batches, notifs, batch_id, status,
                       done.sentAt, done.error, failAt)
          IN  /\ batches' = r.batches
              /\ notifs' = r.notifs
              /\ lastCall' = [op |-> "update_notification_batch",
                              raised |-> r.raised, ret |-> r.ret,
                              batch_id |-> batch_id]
    /\ UNCHANGED <<pass, tasks>>

\* finalise_notification_batch(batch_id, status, sent_at, error, [])
\* with any batch id and an empty notifications list: the update_one and
\* the commit are the statements that can fail, insert_many is skipped.
CallFinaliseOf ==
    /\ Quiet
    /\ \E batch_id \in BatchIdArgs, status \in {SENT, FAILED}, failAt \in {0, 1, 3} :
          LET done == WithStatus([status |-> status, sentAt |-> NULL, error |-> NULL],
                                 status)
              r == finalise_notification_batch(batches, notifs, batch_id, status,
                       done.sentAt, done.error, <<>>, failAt)
          IN  /\ batches' = r.batches
              /\ notifs' = r.notifs
              /\ lastCall' = [op |-> "finalise_notification_batch",
                              raised |-> r.raised, ret |-> r.ret,
                              batch_id |-> batch_id]
    /\ UNCHANGED <<pass, tasks>>

\* SpecTransitions: batches saved alone, then finalise and update calls
\* with any batch id.
NextTransitions ==
    \/ CallSaveBatch
    \/ CallFinaliseOf
    \/ CallUpdateAny

SpecTransitions == Init /\ [][NextTransitions]_vars

\* ------------------------------------------------- the batch lookups
\* A lookup that returns the oldest pending batch of the user.
MutPendingOldest(bs, user_id, notification_type) ==
    LET found == {k \in 1..Len(bs) :
                     /\ bs[k].userId = user_id
                     /\ bs[k].status = PENDING
                     /\ notification_type # None =>
                            bs[k].notificationType = notification_type[1]}
    IN  IF found = {} THEN None
        ELSE Some(bs[CHOOSE k \in found : \A j \in found : k <= j])

\* get_pending_batch_for_user: find_one on userId, status pending and, when
\* a type is given, notificationType, sorted by _id descending; None when
\* no batch matches.
get_pending_batch_for_user(bs, user_id, notification_type) ==
    LET found == {k \in 1..Len(bs) :
                     /\ bs[k].userId = user_id
                     /\ bs[k].status = PENDING
                     /\ notification_type # None =>
                            bs[k].notificationType = notification_type[1]}
    IN  IF found = {} THEN None
        ELSE Some(bs[CHOOSE k \in found : \A j \in found : j <= k])

\* The user ids a caller can ask for: those of the registry's persons and
\* one no batch is for.
UserIdArgs ==
    {get_user_from_resource(rid).id : rid \in ResourceIds \cup {"R:Z"}}

\* The notification_type argument: absent, or one of the two types.
TypeArgs == {None, Some(EXPIRING_SOON), Some(EXPIRED)}

\* get_notification_batch(batch_id)
CallGetBatch ==
    /\ Quiet
    /\ \E batch_id \in BatchIdArgs :
          lastCall' = [op |-> "get_notification_batch", raised |-> FALSE,
                       ret |-> get_notification_batch(batches, batch_id),
                       batch_id |-> batch_id]
    /\ UNCHANGED <<batches, notifs, pass, tasks>>

\* get_pending_batch_for_user(user_id, notification_type)
CallGetPending ==
    /\ Quiet
    /\ \E user_id \in UserIdArgs, notification_type \in TypeArgs :
          lastCall' = [op |-> "get_pending_batch_for_user", raised |-> FALSE,
                       ret |-> get_pending_batch_for_user(batches, user_id,
                                                          notification_type),
                       user_id |-> user_id,
                       notification_type |-> notification_type]
    /\ UNCHANGED <<batches, notifs, pass, tasks>>

\* SpecLookup: batches saved alone, in any status, and the two lookups.
NextLookup ==
    \/ CallSaveBatch
    \/ CallGetBatch
    \/ CallGetPending

SpecLookup == Init /\ [][NextLookup]_vars

\* ------------------------------------------------- the API key check
\* What a request carries in the X-API-Key header and in the configured
\* header: nothing, the empty string, a stored key or a key not stored.
KeyValues == {NULL, "", "known", "unknown"}

\* hash_api_key: SHA-256 of the key, taken as one-to-one.
hash_api_key(api_key) == <<"sha256", api_key>>

\* The documents of the users collection.
ApiKeyRecords == {[api_key |-> hash_api_key("known"), name |-> "scheduler"]}

\* resolve_api_key: the first document with the key's hash, or None.
resolve_api_key(api_key) ==
    LET found == {d \in ApiKeyRecords : d.api_key = hash_api_key(api_key)}
    IN  IF found = {} THEN None ELSE Some(CHOOSE d \in found : TRUE)

\* A check that lets a key through when no document has it.
MutVerifyAcceptsUnknown(api_key, header_value, lookup_ok) ==
    LET key == IF api_key \in {NULL, ""} THEN header_value ELSE api_key
    IN  IF key \in {NULL, ""} THEN 401
        ELSE IF ~lookup_ok THEN 503
        ELSE 200

\* verify_api_key: the status it raises, or 200 when it returns.  api_key
\* is the X-API-Key header, header_value the configured header; lookup_ok
\* says whether resolve_api_key answers.
verify_api_key(api_key, header_value, lookup_ok) ==
    LET key == IF api_key \in {NULL, ""} THEN header_value ELSE api_key
    IN  IF key \in {NULL, ""} THEN 401
        ELSE IF ~lookup_ok THEN 503
        ELSE IF resolve_api_key(key) = None THEN 401
        ELSE 200

\* The protected routes modelled: the root route, and the route of the
\* immediate pass, which stands for those of the /auths router.
ProtectedRoutes == {"/", "/auths/notify-auth-expiry"}

\* One request to a protected route, while no pass runs.  The dependency
\* verify_api_key runs first; then the body is validated (422); then the
\* handler runs: the root route answers, the other starts an immediate pass.
Request(p) ==
    /\ Quiet
    /\ \E route \in ProtectedRoutes, api_key \in KeyValues, header_value \in KeyValues,
       lookup_ok \in BOOLEAN, body_valid \in BOOLEAN :
       LET status == verify_api_key(api_key, header_value, lookup_ok)
           answer(code) == [op |-> "request", raised |-> FALSE, ret |-> code,
                            route |-> route, api_key |-> api_key,
                            header_value |-> header_value,
                            lookup_ok |-> lookup_ok, body_valid |-> body_valid]
       IN  /\ IF status # 200
              THEN lastCall' = answer(status) /\ pass' = pass
              ELSE IF ~body_valid /\ route # "/"
              THEN lastCall' = answer(422) /\ pass' = pass
              ELSE IF route = "/"
              THEN lastCall' = answer(200) /\ pass' = pass
              ELSE lastCall' = answer(200) /\ StartPass(p, CallerFetches)
           /\ UNCHANGED <<batches, notifs, tasks>>

ApiStep ==
    \E p \in Sequential :
        \/ Request(p)
        \/ Resolve(p)
        \/ Gate(p)
        \/ Send(p)
        \/ Persist(p)
        \/ Return(p)
        \/ Ack(p)

\* SpecApi: requests to the protected routes, and the passes they start.
NextApi == ApiStep

SpecApi == Init /\ [][NextApi]_vars

\* ------------------------------------- the pure functions, called alone
\* The longest list of records handed to a function.
MaxAuths == 3

\* The records of those lists: the registry's, and one whose resource id
\* is the empty string.
ListRecords ==
    Registry \cup {[id |-> 106, resource_id |-> "", expiry |-> Some(Today + 1)]}

\* The lists: any records, repeated or not, in any order.
AuthLists == UNION {[1..n -> ListRecords] : n \in 0..MaxAuths}

RECURSIVE InsertByExpiry(_, _)
InsertByExpiry(sorted, summary) ==
    IF sorted = <<>> THEN <<summary>>
    ELSE IF Head(sorted).expiryDate <= summary.expiryDate
         THEN <<Head(sorted)>> \o InsertByExpiry(Tail(sorted), summary)
         ELSE <<summary>> \o sorted

RECURSIVE SortLoop(_, _)
SortLoop(summaries, sorted) ==
    IF summaries = <<>> THEN sorted
    ELSE SortLoop(Tail(summaries), InsertByExpiry(sorted, Head(summaries)))

\* A rendering that lists the summaries as the batch holds them.
MutSortedAsStored(summaries) == summaries

\* render_email_template: sorted(batch.auths, key=expiry_date), a stable
\* sort into a new list; the batch keeps its own order.
sorted_auths_of(summaries) == SortLoop(summaries, <<>>)

\* A caller holds one of the lists and has called nothing yet.
InitPure ==
    /\ batches = <<>>
    /\ notifs = <<>>
    /\ pass = [p \in Passes |-> IdlePass]
    /\ tasks = <<>>
    /\ \E auths \in AuthLists :
          lastCall = [op |-> "none", raised |-> FALSE, ret |-> NULL, auths |-> auths]

\* group_auths_by_person(auths)
CallGroup ==
    /\ lastCall.op = "none"
    /\ lastCall' = [op |-> "group_auths_by_person", raised |-> FALSE,
                    ret |-> group_auths_by_person(lastCall.auths),
                    auths |-> lastCall.auths]
    /\ UNCHANGED <<batches, notifs, pass, tasks>>

\* create_notification_batch(resource_id, auths, user, notification_type),
\* and the list render_email_template makes of the batch's summaries.
CallCreateBatch ==
    /\ lastCall.op = "none"
    /\ \E resource_id \in ResourceIds, notification_type \in {EXPIRING_SOON, EXPIRED} :
          LET auths == lastCall.auths
              batch == create_notification_batch(resource_id, auths,
                           get_user_from_resource(resource_id), notification_type)
          IN  lastCall' = [op |-> "create_notification_batch", raised |-> FALSE,
                           ret |-> batch, auths |-> auths,
                           sorted_auths |-> sorted_auths_of(batch.auths)]
    /\ UNCHANGED <<batches, notifs, pass, tasks>>

\* SpecPure: the pure functions on every list of records.
NextPure ==
    \/ CallGroup
    \/ CallCreateBatch

SpecPure == InitPure /\ [][NextPure]_vars

\* ================================================================ claims

\* The records of `person_auths` with no sent and no pending entry in the
\* notifications collection `store`, in their order.
Unnotified(store, person_auths) ==
    SelectSeq(person_auths,
              LAMBDA a : \A k \in 1..Len(store) :
                            store[k].authId = a.id => store[k].status = FAILED)

GroupFor(p, rid) ==
    LET gs == GroupsOf(p)
    IN  gs[CHOOSE k \in 1..Len(gs) : gs[k].key = rid]

\* The steps of pass p's trace of a given kind.
Events(p, ev) ==
    {k \in 1..Len(pass[p].trace) : pass[p].trace[k].ev = ev}

\* C1: once an immediate pass has sent a record successfully and saved the
\* outcome, no later pass sends an email with that record again: a send
\* that has just succeeded shares no record with a sent batch in the store.
C1_AtMostOneSuccessfulSend ==
    \A p \in Passes :
        (pass[p].pc = "sent" /\ pass[p].batch.status = SENT) =>
            \A k \in 1..Len(batches) :
                batches[k].status = SENT =>
                    AuthIdsOf(batches[k].auths) \cap AuthIdsOf(pass[p].batch.auths) = {}

\* C2: for each source record id at most one notification has status sent.
C2_AtMostOneSentPerRecord ==
    \A a \in AuthIds :
        Cardinality({k \in 1..Len(notifs) :
                        notifs[k].authId = a /\ notifs[k].status = SENT}) <= 1

\* C3: the dedup gate keeps exactly the records without a sent or pending
\* entry: what a pass is left with after the gate is the person's records
\* that have no entry or only failed entries, and the person is skipped
\* exactly when nothing is left.
C3_GateKeepsUnnotified ==
    \A p \in Passes :
        /\ pass[p].pc = "gated" =>
              pass[p].auths_to_notify = Unnotified(notifs, CurrentGroup(p).auths)
        /\ \A k \in 1..Len(pass[p].trace) :
              LET e == pass[p].trace[k]
                  left == Unnotified(notifs, GroupFor(p, e.rid).auths)
              IN  /\ e.ev = "skip" => left = <<>>
                  /\ e.ev = "gate" /\ e.ok => left # <<>>

\* C3 happens: a person with two records, one with a sent entry, is left
\* with the other one.
C3_Witness ==
    \E p \in Passes :
        /\ pass[p].pc = "gated"
        /\ Len(CurrentGroup(p).auths) = 2
        /\ Len(pass[p].auths_to_notify) = 1
        /\ \E k \in 1..Len(notifs) :
              /\ notifs[k].status = SENT
              /\ notifs[k].authId # pass[p].auths_to_notify[1].id

\* C4: once the store holds a sent notification for a record, the gate
\* answers false for that record after every further store operation.
C4_GateMonotone ==
    [][\A a \in Registry :
          (\E k \in 1..Len(notifs) :
              notifs[k].authId = a.id /\ notifs[k].status = SENT)
          => ~should_send_notification(notifs', a)]_vars

\* C4 happens: a record has a sent entry and a later failed one.
C4_Witness ==
    \E k, j \in 1..Len(notifs) :
        /\ k < j
        /\ notifs[k].authId = notifs[j].authId
        /\ notifs[k].status = SENT
        /\ notifs[j].status = FAILED

\* C5: after an immediate pass every summary of every batch the pass saved
\* has a notification of its own in the store.
C5_PersistWritesSiblings ==
    \A p \in Passes :
        pass[p].pc = "done" =>
            \A s \in 1..Len(pass[p].saved) :
                LET id == pass[p].saved[s]
                IN  /\ id \in 1..Len(batches)
                    /\ \A a \in AuthIdsOf(batches[id].auths) :
                          \E k \in 1..Len(notifs) :
                              notifs[k].authId = a /\ notifs[k].batch = id

\* C6: create-with-siblings is all or nothing: a call that raised left both
\* collections as they were; a call that returned added the batch and all
\* its N notifications, in order, and returned the batch id and N ids.
C6_CreateAllOrNothing ==
    [][lastCall'.op = "save_notification_with_batch" =>
          IF lastCall'.raised
          THEN batches' = batches /\ notifs' = notifs
          ELSE \E built \in BuiltBatches, status \in NotificationStatus :
                  LET batch == WithStatus(built, status)
                      n == Len(batch.auths)
                      id == Len(batches) + 1
                  IN  /\ batches' = Append(batches, batch)
                      /\ notifs' = notifs \o
                            [i \in 1..n |-> [authId |-> batch.auths[i].authId,
                                             status |-> status, batch |-> id]]
                      /\ lastCall'.ret =
                            [batch_id |-> id,
                             notif_ids |-> [i \in 1..n |-> Len(notifs) + i]]]_vars

\* C6 happens: a call raised with an earlier batch and its notifications
\* in the store.
C6_Witness ==
    /\ lastCall.op = "save_notification_with_batch"
    /\ lastCall.raised
    /\ Len(batches) = 1
    /\ Len(notifs) = 1

\* C7: a notification with status sent exists only while the batch it was
\* written with has status sent.
C7_SentRecordHasSentBatch ==
    \A k \in 1..Len(notifs) :
        notifs[k].status = SENT =>
            /\ notifs[k].batch \in 1..Len(batches)
            /\ batches[notifs[k].batch].status = SENT

\* C8: a batch that is sent or failed keeps its status under every
\* persistence operation.
C8_TerminalStatusKept ==
    [][\A id \in 1..Len(batches) :
          batches[id].status \in {SENT, FAILED} =>
              batches'[id].status = batches[id].status]_vars

\* The pass handled exactly the two persons `a` then `b` or `b` then `a`,
\* the send to `a` raised, the send to `b` succeeded, nothing else failed.
SendFailedOnlyFor(p, a, b) ==
    LET t == pass[p].trace
    IN  /\ a # b
        /\ {t[k].rid : k \in 1..Len(t)} = {a, b}
        /\ \A k \in 1..Len(t) : t[k].ev = "send" \/ t[k].ok
        /\ \A k \in Events(p, "send") : t[k].ok = (t[k].rid = b)
        /\ {t[k].rid : k \in Events(p, "send")} = {a, b}

\* C9: when the send to A raises and the send to B succeeds, the pass
\* reports one sent, one failed and one error string, which names A's
\* address, and has saved a failed batch for A and a sent batch for B.
C9_PartialFailureIsolation ==
    \A p \in Passes, a, b \in ResourceIds :
        (pass[p].pc = "done" /\ SendFailedOnlyFor(p, a, b)) =>
            /\ pass[p].result.success
            /\ pass[p].result.notifications_sent = 1
            /\ pass[p].result.notifications_failed = 1
            /\ pass[p].result.errors =
                  <<[kind |-> "send", who |-> get_user_from_resource(a).email]>>
            /\ \A s \in 1..Len(pass[p].saved) : pass[p].saved[s] \in 1..Len(batches)
            /\ \E s \in 1..Len(pass[p].saved) :
                  /\ batches[pass[p].saved[s]].resourceId = a
                  /\ batches[pass[p].saved[s]].status = FAILED
            /\ \E s \in 1..Len(pass[p].saved) :
                  /\ batches[pass[p].saved[s]].resourceId = b
                  /\ batches[pass[p].saved[s]].status = SENT

\* C9 happens: B was handled first, then A, whose send raised; both
\* batches carry records.
C9_Witness ==
    \E p \in Passes, a, b \in ResourceIds :
        /\ pass[p].pc = "done"
        /\ SendFailedOnlyFor(p, a, b)
        /\ pass[p].trace[1].rid = b
        /\ Len(pass[p].saved) = 2
        /\ \A s \in 1..2 : batches[pass[p].saved[s]].auths # <<>>

\* C10 as stated: once a pass has got as far as building a person's batch,
\* every record of that person with no entry or only failed entries is in
\* the batch the pass built and tried to send.
C10_ReofferedInBatch ==
    \A p \in Passes :
        pass[p].pc = "sent" =>
            \A k \in 1..Len(CurrentGroup(p).auths) :
                LET a == CurrentGroup(p).auths[k]
                IN  Unnotified(notifs, <<a>>) # <<>> =>
                        a.id \in AuthIdsOf(pass[p].batch.auths)

\* C10 amended: once a pass has got as far as building a person's batch,
\* every record of that person that has an expiry date and no entry or only
\* failed entries is in the batch the pass built and tried to send, and a
\* pass tries one send per person at most.
C10_ReofferedWithExpiry ==
    \A p \in Passes :
        /\ pass[p].pc = "sent" =>
              /\ pass[p].trace[Len(pass[p].trace)].ev = "send"
              /\ \A k \in 1..Len(CurrentGroup(p).auths) :
                    LET a == CurrentGroup(p).auths[k]
                    IN  (a.expiry # None /\ Unnotified(notifs, <<a>>) # <<>>) =>
                            a.id \in AuthIdsOf(pass[p].batch.auths)
        /\ \A k, j \in Events(p, "send") :
              pass[p].trace[k].rid = pass[p].trace[j].rid => k = j

\* C10 happens: a record whose one earlier attempt failed is in the batch.
C10_Witness ==
    \E p \in Passes :
        /\ pass[p].pc = "sent"
        /\ \E k \in 1..Len(notifs) :
              /\ notifs[k].status = FAILED
              /\ notifs[k].authId \in AuthIdsOf(pass[p].batch.auths)


\* The category the summaries of a batch call for.
CategoryFor(batch) ==
    IF \E k \in 1..Len(batch.auths) : batch.auths[k].expiryDate < Today
    THEN EXPIRED ELSE EXPIRING_SOON

\* C11: the category of every batch a pass builds, and of every stored
\* batch, is expired exactly when one of its summaries has an expiry date
\* strictly before today, and expiring_soon otherwise.
C11_CategoryByExpiry ==
    /\ \A p \in Passes :
          pass[p].pc = "sent" => pass[p].batch.notificationType = CategoryFor(pass[p].batch)
    /\ \A id \in 1..Len(batches) :
          batches[id].notificationType = CategoryFor(batches[id])

\* C11 happens: a pass built a batch whose earliest expiry is today, and it
\* is an expiring_soon batch.
C11_Witness ==
    \E p \in Passes :
        /\ pass[p].pc = "sent"
        /\ pass[p].batch.auths # <<>>
        /\ \A k \in 1..Len(pass[p].batch.auths) : pass[p].batch.auths[k].expiryDate = Today
        /\ pass[p].batch.notificationType = EXPIRING_SOON

\* C12: no empty batch is sent or persisted: the batch a pass has tried to
\* send has summaries, and so has every batch in the store.
C12_NoEmptyBatch ==
    /\ \A p \in Passes : pass[p].pc = "sent" => pass[p].batch.auths # <<>>
    /\ \A id \in 1..Len(batches) : batches[id].auths # <<>>


\* C13: when the registry returns zero records the pass returns success
\* with zero counts and no errors, and has taken no step that resolves a
\* recipient, reads or writes the store or sends an email.
C13_EmptyFetchIsZeroSuccess ==
    \A p \in Passes :
        (pass[p].fetch = "returned" /\ pass[p].expiring_auths = <<>>) =>
            /\ pass[p].pc = "done"
            /\ pass[p].result.success = TRUE
            /\ pass[p].result.notifications_sent = 0
            /\ pass[p].result.notifications_failed = 0
            /\ pass[p].result.errors = <<>>
            /\ pass[p].trace = <<>>
            /\ pass[p].saved = <<>>

\* C13 happens: a pass over an empty registry has ended, with batches of
\* earlier passes in the store.
C13_Witness ==
    \E p \in Passes :
        /\ pass[p].pc = "done"
        /\ pass[p].fetch = "returned"
        /\ pass[p].expiring_auths = <<>>
        /\ batches # <<>>

\* C14: when the registry fetch raises the pass returns success false, zero
\* counts and exactly the exception message as errors, and has taken no
\* step that sends an email or touches the store.
C14_FetchFailureIsFatal ==
    \A p \in Passes :
        pass[p].fetch = "raised" =>
            /\ pass[p].pc = "done"
            /\ pass[p].result.success = FALSE
            /\ pass[p].result.notifications_sent = 0
            /\ pass[p].result.notifications_failed = 0
            /\ pass[p].result.errors = <<FetchError>>
            /\ pass[p].trace = <<>>
            /\ pass[p].saved = <<>>

\* C14 happens: a pass whose fetch raised has ended, with batches of earlier
\* passes in the store.
C14_Witness ==
    \E p \in Passes :
        /\ pass[p].pc = "done"
        /\ pass[p].fetch = "raised"
        /\ batches # <<>>


\* C15: a store read that fails in the dedup gate ends the pass: it is the
\* last step the pass takes, and the pass returns success false.
C15_GateFailureIsFatal ==
    \A p \in Passes :
        \A k \in Events(p, "gate") :
            ~pass[p].trace[k].ok =>
                /\ k = Len(pass[p].trace)
                /\ pass[p].pc # "loop"
                /\ pass[p].pc = "done" => pass[p].result.success = FALSE

\* C16: finalise_notification_batch with a batch id no stored batch has
\* raises and leaves both collections as they were.
C16_FinaliseUnknownNotFound ==
    [][(/\ lastCall'.op = "finalise_notification_batch"
        /\ lastCall'.batch_id \notin 1..Len(batches))
       => (lastCall'.raised /\ batches' = batches /\ notifs' = notifs)]_vars

\* C17: a batch stored with status pending has no notification written
\* with it.
C17_PendingBatchHasNoSiblings ==
    \A k \in 1..Len(notifs) :
        notifs[k].batch \in 1..Len(batches) =>
            batches[notifs[k].batch].status # PENDING


\* The stored batch k is in flight: pending, with a task for it in the queue.
InFlight(k) ==
    /\ batches[k].status = PENDING
    /\ \E t \in 1..Len(tasks) : tasks[t].batch_id = k

\* C18: a record in flight is not dispatched again: no two batches in
\* flight cover the same record.
C18_InFlightNotRedispatched ==
    \A k1, k2 \in 1..Len(batches) :
        (k1 # k2 /\ InFlight(k1) /\ InFlight(k2)) =>
            AuthIdsOf(batches[k1].auths) \cap AuthIdsOf(batches[k2].auths) = {}

\* The delay of the task at position t of the queue, and the position in
\* pass p of the recipient the task is for.
DelayOf(t) == tasks[t].schedule_in
PositionOf(p, t) ==
    CHOOSE k \in 1..Len(GroupsOf(p)) :
        GroupsOf(p)[k].key = batches[tasks[t].batch_id].resourceId

InRange(resource_id, unit_id, days) ==
    {a \in CurrentAuths :
        /\ a.resource_id = resource_id
        /\ a.expiry # None
        /\ a.expiry[1] <= Today + days
        /\ Str(a.org_unit_id) = (IF unit_id = None THEN DefaultOrgUnit ELSE unit_id[1])}

HasSent(id) == \E k \in 1..Len(notifs) : notifs[k].authId = id /\ notifs[k].status = SENT

\* C21: the ad-hoc pass leaves both collections as they are, and when the
\* registry and the user lookup answer it sends one email covering every
\* record in range, whatever the notifications collection holds.
C21_AdHocBypassesGate ==
    [][lastCall'.op = "notify_expiring_auths_for_resource" =>
        LET due == InRange(lastCall'.resource_id, lastCall'.unit_id,
                          lastCall'.warning_days)
        IN  /\ batches' = batches
            /\ notifs' = notifs
            /\ (lastCall'.ok /\ due # {}) =>
                  /\ lastCall'.emails = 1
                  /\ lastCall'.auths = {a.id : a \in due}]_vars

\* An ad-hoc pass has just sent an email for records that all had a sent
\* notification already.
C21_Witness ==
    /\ lastCall.op = "notify_expiring_auths_for_resource"
    /\ lastCall.emails = 1
    /\ lastCall.ret.notifications_sent = 1
    /\ lastCall.auths # {}
    /\ \A id \in lastCall.auths : HasSent(id)


\* The steps of pass p that failed, and the error strings they give, in
\* the order of the steps.
FailedEvents(p) == {k \in 1..Len(pass[p].trace) : ~pass[p].trace[k].ok}

RECURSIVE ErrorsOfTrace(_)
ErrorsOfTrace(t) ==
    IF t = <<>> THEN <<>>
    ELSE LET e == Head(t)
             here == IF e.ok THEN <<>>
                     ELSE IF e.ev = "send"
                     THEN <<[kind |-> "send", who |-> get_user_from_resource(e.rid).email]>>
                     ELSE <<[kind |-> "process", who |-> e.rid]>>
         IN  here \o ErrorsOfTrace(Tail(t))

\* The pass has returned from its loop (not from the outer except).
Completed(p) == pass[p].pc = "done" /\ pass[p].fetch = "returned"

\* C22: a pass in which a batch could not be saved still handles every
\* person and returns success; each failed save has added one error string
\* naming the person and one to notifications_failed.
C22_PersistFailureIsolated ==
    \A p \in Passes :
        (Completed(p) /\ \E k \in Events(p, "persist") : ~pass[p].trace[k].ok) =>
            /\ pass[p].result.success
            /\ {pass[p].trace[k].rid : k \in 1..Len(pass[p].trace)} =
                  {a.resource_id : a \in {pass[p].expiring_auths[i] :
                                            i \in 1..Len(pass[p].expiring_auths)}}
            /\ pass[p].result.notifications_failed = Cardinality(FailedEvents(p))
            /\ Len(pass[p].result.errors) = Cardinality(FailedEvents(p))
            /\ \A k \in Events(p, "persist") :
                  ~pass[p].trace[k].ok =>
                      Cardinality({e \in 1..Len(pass[p].result.errors) :
                          pass[p].result.errors[e] =
                              [kind |-> "process", who |-> pass[p].trace[k].rid]}) = 1

\* The save for the first of two persons failed after its email went out,
\* the second person's batch was sent and saved.
C22_Witness ==
    \E p \in Passes :
        /\ Completed(p)
        /\ \E k \in Events(p, "persist"), m \in Events(p, "persist") :
              /\ k < m
              /\ ~pass[p].trace[k].ok
              /\ pass[p].trace[m].ok
              /\ pass[p].trace[m].rid # pass[p].trace[k].rid
        /\ pass[p].result.notifications_sent = 2

\* C23: the summary of a completed pass counts the records fetched, the
\* distinct persons, and the sends that succeeded (as emails_sent and as
\* notifications_sent); its errors are those of the failed steps in order.
C23_SummaryCounts ==
    \A p \in Passes :
        Completed(p) =>
            LET auths == pass[p].expiring_auths
                r == pass[p].result
                sent == {k \in Events(p, "send") : pass[p].trace[k].ok}
            IN  /\ r.summary.total_expiring_auths = Len(auths)
                /\ r.summary.users_notified =
                      Cardinality({auths[i].resource_id : i \in 1..Len(auths)})
                /\ r.summary.emails_sent = Cardinality(sent)
                /\ r.notifications_sent = Cardinality(sent)
                /\ r.errors = ErrorsOfTrace(pass[p].trace)

\* A pass over three records of two persons has returned: one send
\* succeeded, the other failed.
C23_Witness ==
    \E p \in Passes :
        /\ Completed(p)
        /\ Len(pass[p].expiring_auths) = 3
        /\ pass[p].result.summary.users_notified = 2
        /\ pass[p].result.notifications_sent = 1
        /\ Len(pass[p].result.errors) = 1


\* C24: the groups group_auths_by_person returns have distinct keys, one
\* per resource id of the input, the empty one included; each group holds
\* the input's records of its key, all of them, in input order, so no
\* group is empty and no record is lost or repeated.
C24_GroupingPartitions ==
    lastCall.op = "group_auths_by_person" =>
        LET auths == lastCall.auths
            groups == lastCall.ret
        IN  /\ \A j, k \in 1..Len(groups) : j # k => groups[j].key # groups[k].key
            /\ {groups[k].key : k \in 1..Len(groups)} =
                  {auths[i].resource_id : i \in 1..Len(auths)}
            /\ \A k \in 1..Len(groups) :
                  /\ groups[k].auths # <<>>
                  /\ groups[k].auths =
                        SelectSeq(auths, LAMBDA a : a.resource_id = groups[k].key)

\* A list with a record without resource id between two records of R:A has
\* been grouped.
C24_Witness ==
    /\ lastCall.op = "group_auths_by_person"
    /\ Len(lastCall.auths) = 3
    /\ lastCall.auths[1].resource_id = "R:A"
    /\ lastCall.auths[2].resource_id = ""
    /\ lastCall.auths[3].resource_id = "R:A"
    /\ lastCall.auths[1] # lastCall.auths[3]
    /\ Len(lastCall.ret) = 2

Ascending(summaries) ==
    \A j, k \in 1..Len(summaries) :
        j < k => summaries[j].expiryDate <= summaries[k].expiryDate

\* The summaries as a bag.
BagOf(summaries) ==
    [s \in {summaries[k] : k \in 1..Len(summaries)} |->
        Cardinality({k \in 1..Len(summaries) : summaries[k] = s})]

C26_SubjectCountsSummaries ==
    lastCall.op = "create_notification_batch" =>
        LET batch == lastCall.ret
            dated == {i \in 1..Len(lastCall.auths) : lastCall.auths[i].expiry # None}
        IN  /\ batch.subject.count = Len(batch.auths)
            /\ batch.subject.count = Cardinality(dated)
            /\ batch.subject.plural = (Len(batch.auths) # 1)
            /\ batch.subject.kind = batch.notificationType
            /\ DOMAIN batch.subject = {"kind", "count", "plural"}

\* A batch built from one record with an expiry and one without: the
\* subject says one, in the singular.
C26_Witness ==
    /\ lastCall.op = "create_notification_batch"
    /\ Len(lastCall.auths) = 2
    /\ \E i \in 1..2 : lastCall.auths[i].expiry = None
    /\ lastCall.ret.subject.count = 1
    /\ ~lastCall.ret.subject.plural


\* Passes p and q have both sent to the same person and neither has saved
\* its batch yet: both read the notifications before either wrote.
BothSentTo(p, q) ==
    /\ p # q
    /\ pass[p].pc = "sent"
    /\ pass[q].pc = "sent"
    /\ CurrentGroup(p).key = CurrentGroup(q).key

\* The ids of the records with an expiry that both passes fetched for the
\* person they are at.
CommonRecords(p, q) ==
    LET of(r) == {CurrentGroup(r).auths[i] : i \in 1..Len(CurrentGroup(r).auths)}
    IN  {a.id : a \in {b \in of(p) \cap of(q) : b.expiry # None}}

\* C27: when two passes are past the gate for the same person before
\* either saves, each has made a send that covers every record both
\* fetched for that person.
C27_RaceSendsTwice ==
    \A p, q \in Passes :
        BothSentTo(p, q) =>
            \A r \in {p, q} :
                LET last == pass[r].trace[Len(pass[r].trace)]
                IN  /\ last.ev = "send"
                    /\ last.rid = CurrentGroup(r).key
                    /\ CommonRecords(p, q) \subseteq last.auths
                    /\ CommonRecords(p, q) \subseteq AuthIdsOf(pass[r].batch.auths)

\* Two passes have both emailed R:A about records 101 and 102 and neither
\* has saved yet.
C27_Witness ==
    \E p, q \in Passes :
        /\ BothSentTo(p, q)
        /\ CommonRecords(p, q) = {101, 102}
        /\ pass[p].batch.status = SENT
        /\ pass[q].batch.status = SENT
        /\ batches = <<>>


\* The key a request is judged by, if it has one.
KeyOf(call) ==
    IF call.api_key \in {NULL, ""} THEN call.header_value ELSE call.api_key

\* C28: a request without API key is answered 401, one whose key no
\* document has 401, one whose key lookup fails 503, whatever its body;
\* none of them starts a pass, writes to the store or queues a task.
C28_RejectedBeforeHandler ==
    [][(lastCall' # lastCall /\ lastCall'.op = "request") =>
        LET key == KeyOf(lastCall')
            untouched == /\ pass' = pass
                         /\ batches' = batches
                         /\ notifs' = notifs
                         /\ tasks' = tasks
        IN  /\ key \in {NULL, ""} => (lastCall'.ret = 401 /\ untouched)
            /\ (key \notin {NULL, ""} /\ ~lastCall'.lookup_ok) =>
                  (lastCall'.ret = 503 /\ untouched)
            /\ (key = "unknown" /\ lastCall'.lookup_ok) =>
                  (lastCall'.ret = 401 /\ untouched)]_vars

\* After a pass that saved a batch, a request for another pass came
\* without key and with an invalid body, and was answered 401.
C28_Witness ==
    /\ lastCall.op = "request"
    /\ lastCall.route = "/auths/notify-auth-expiry"
    /\ lastCall.api_key = NULL
    /\ lastCall.header_value = NULL
    /\ ~lastCall.body_valid
    /\ lastCall.ret = 401
    /\ batches # <<>>
    /\ Quiet


\* C29: a person whose dedup read failed in a pass gets no email and no
\* batch in that pass.
C29_NoSendAfterFailedGate ==
    \A p \in Passes :
        \A k \in Events(p, "gate") :
            ~pass[p].trace[k].ok =>
                LET rid == pass[p].trace[k].rid
                IN  /\ \A m \in Events(p, "send") \cup Events(p, "persist") :
                          pass[p].trace[m].rid # rid
                    /\ \A s \in 1..Len(pass[p].saved) :
                          pass[p].saved[s] \in 1..Len(batches) =>
                              batches[pass[p].saved[s]].resourceId # rid
                    /\ (pass[p].pc \in {"gated", "sent"}) => CurrentGroup(p).key # rid

\* The dedup read failed for the first of two persons; the second was
\* emailed and their batch saved.
C29_Witness ==
    \E p \in Passes :
        /\ Completed(p)
        /\ Len(pass[p].trace) > 1
        /\ pass[p].trace[1].ev = "resolve"
        /\ pass[p].trace[2].ev = "gate"
        /\ ~pass[p].trace[2].ok
        /\ Len(pass[p].saved) = 1
        /\ batches[pass[p].saved[1]].resourceId # pass[p].trace[2].rid


\* The place of a step among the steps for one person.
RankOf(ev) ==
    CASE ev = "resolve" -> 1
      [] ev \in {"gate", "skip"} -> 2
      [] ev = "send" -> 3
      [] ev = "persist" -> 4

\* The place of a person in the grouping of pass p.
PlaceOf(p, rid) == CHOOSE k \in 1..Len(GroupsOf(p)) : GroupsOf(p)[k].key = rid

\* C30: the steps of one pass are taken person by person, in the order of
\* the grouping, and for one person in the order resolve, dedup check,
\* send, save; a step that fails ends the person's turn, except a send,
\* whose batch is still saved.  So a person's save is over before the next
\* person's dedup check starts.
C30_SequentialRecipients ==
    \A p \in Passes :
        LET t == pass[p].trace
        IN  \A j, k \in 1..Len(t) :
                j < k =>
                    \/ PlaceOf(p, t[j].rid) < PlaceOf(p, t[k].rid)
                    \/ /\ t[j].rid = t[k].rid
                       /\ RankOf(t[j].ev) < RankOf(t[k].ev)
                       /\ t[j].ok \/ t[j].ev = "send"

\* A pass has resolved, checked, emailed and saved for two persons, one
\* after the other.
C30_Witness ==
    \E p \in Passes :
        /\ Len(pass[p].trace) = 8
        /\ [k \in 1..8 |-> pass[p].trace[k].ev] =
              <<"resolve", "gate", "send", "persist",
                "resolve", "gate", "send", "persist">>
        /\ pass[p].trace[4].rid # pass[p].trace[5].rid


\* C31: every batch an immediate pass has saved is sent, with a sent
\* timestamp and no error, or failed, with an error and no sent timestamp;
\* none is pending.
C31_SavedBatchTerminal ==
    \A p \in Passes :
        \A s \in 1..Len(pass[p].saved) :
            LET b == batches[pass[p].saved[s]]
            IN  \/ b.status = SENT /\ b.sentAt # NULL /\ b.error = NULL
                \/ b.status = FAILED /\ b.error # NULL /\ b.sentAt = NULL

\* A pass has saved a sent batch and a failed batch.
C31_Witness ==
    \E p \in Passes :
        /\ Len(pass[p].saved) = 2
        /\ {batches[pass[p].saved[s]].status : s \in 1..2} = {SENT, FAILED}

\* Every record of the list has a sent or a pending notification.
AllNotified(store, person_auths) ==
    \A i \in 1..Len(person_auths) :
        \E k \in 1..Len(store) :
            /\ store[k].authId = person_auths[i].id
            /\ store[k].status \in {SENT, PENDING}

\* C32: when every record of the person a pass is at has a sent or a
\* pending notification and the dedup read answers, the pass moves on to
\* the next person: no send, no write, no counter and no error changes.
C32_FullyNotifiedSkipped ==
    [][\A p \in Passes :
          (/\ pass[p].pc = "resolved"
           /\ pass'[p] # pass[p]
           /\ AllNotified(notifs, CurrentGroup(p).auths)
           /\ pass'[p].trace[Len(pass'[p].trace)].ok) =>
              /\ pass'[p].trace[Len(pass'[p].trace)].ev = "skip"
              /\ pass'[p].pc = "loop"
              /\ pass'[p].i = pass[p].i + 1
              /\ pass'[p].notifications_sent = pass[p].notifications_sent
              /\ pass'[p].notifications_failed = pass[p].notifications_failed
              /\ pass'[p].errors = pass[p].errors
              /\ pass'[p].saved = pass[p].saved
              /\ batches' = batches
              /\ notifs' = notifs]_vars

\* A pass has skipped R:A, whose two records have a sent notification, and
\* has returned with no send, no failure and no error.
C32_Witness ==
    \E p \in Passes :
        /\ Completed(p)
        /\ Len(pass[p].trace) = 2
        /\ pass[p].trace[2].ev = "skip"
        /\ pass[p].trace[2].rid = "R:A"
        /\ Len(GroupFor(p, "R:A").auths) = 2
        /\ \A a \in {101, 102} : HasSent(a)
        /\ pass[p].result.notifications_sent = 0
        /\ pass[p].result.notifications_failed = 0
        /\ pass[p].result.errors = <<>>


\* The registry's records without expiry date.
Undated == {a.id : a \in {b \in Registry : b.expiry = None}}

\* C33: no saved batch has a summary for a record without expiry date or
\* counts one in its subject, and a pass makes no send, counted as sent or
\* as failed, for a person whose fetched records all lack an expiry date.
C33_UndatedNeverCounted ==
    /\ \A id \in 1..Len(batches) :
          /\ AuthIdsOf(batches[id].auths) \cap Undated = {}
          /\ batches[id].subject.count = Len(batches[id].auths)
    /\ \A p \in Passes :
          \A k \in Events(p, "send") :
              \E i \in 1..Len(GroupFor(p, pass[p].trace[k].rid).auths) :
                  GroupFor(p, pass[p].trace[k].rid).auths[i].expiry # None


\* C34: a pass makes at most one send per person, also when the send
\* fails, and an ad-hoc pass at most one send: one when it reports a
\* failed send.
C34_OneSendPerRecipient ==
    /\ \A p \in Passes :
          \A j, k \in Events(p, "send") :
              j # k => pass[p].trace[j].rid # pass[p].trace[k].rid
    /\ \A p \in Passes :
          \A k \in Events(p, "send") :
              (~pass[p].trace[k].ok /\ k < Len(pass[p].trace)) =>
                  pass[p].trace[k + 1].ev = "persist"
    /\ lastCall.op = "notify_expiring_auths_for_resource" =>
          /\ lastCall.emails \in {0, 1}
          /\ lastCall.emails =
                lastCall.ret.notifications_sent + lastCall.ret.notifications_failed

\* A pass whose send to its first person failed has gone on to the second
\* person and returned.
C34_Witness ==
    \E p \in Passes :
        /\ Completed(p)
        /\ Len(GroupsOf(p)) = 2
        /\ \E k \in Events(p, "send") :
              /\ ~pass[p].trace[k].ok
              /\ pass[p].trace[k].rid = GroupsOf(p)[1].key
        /\ Cardinality(Events(p, "send")) = 2


\* C35: when resolving a person fails in a pass, nothing else is done for
\* that person in the pass: no dedup read, no send, no write.  The person
\* is counted failed once, with one error string naming the resource id,
\* and the pass goes on to handle every other person.
C35_ResolveFailureIsolated ==
    \A p \in Passes :
        \A k \in Events(p, "resolve") :
            ~pass[p].trace[k].ok =>
                LET rid == pass[p].trace[k].rid
                IN  /\ \A j \in 1..Len(pass[p].trace) :
                          pass[p].trace[j].rid = rid => j = k
                    /\ \A s \in 1..Len(pass[p].saved) :
                          pass[p].saved[s] \in 1..Len(batches) =>
                              batches[pass[p].saved[s]].resourceId # rid
                    /\ Cardinality({e \in 1..Len(pass[p].errors) :
                          pass[p].errors[e].who = rid}) = 1
                    /\ \E e \in 1..Len(pass[p].errors) :
                          pass[p].errors[e] = [kind |-> "process", who |-> rid]
                    /\ pass[p].notifications_failed = Cardinality(FailedEvents(p))
                    /\ pass[p].pc \in {"resolved", "gated", "sent"} =>
                          CurrentGroup(p).key # rid
                    /\ Completed(p) =>
                          \A g \in 1..Len(GroupsOf(p)) :
                              \E j \in 1..Len(pass[p].trace) :
                                  pass[p].trace[j].rid = GroupsOf(p)[g].key

\* The first of two persons could not be resolved; the second was emailed
\* and their batch saved, and the pass reports one sent and one failed.
C35_Witness ==
    \E p \in Passes :
        /\ Completed(p)
        /\ Len(pass[p].trace) = 5
        /\ pass[p].trace[1].ev = "resolve"
        /\ ~pass[p].trace[1].ok
        /\ pass[p].trace[5].ev = "persist"
        /\ pass[p].trace[5].ok
        /\ pass[p].result.notifications_sent = 1
        /\ pass[p].result.notifications_failed = 1
        /\ Len(pass[p].result.errors) = 1


\* The stored batches a pending lookup may return: of the user, pending,
\* and of the type when one is given.
PendingFor(user_id, notification_type) ==
    {k \in 1..Len(batches) :
        /\ batches[k].userId = user_id
        /\ batches[k].status = PENDING
        /\ notification_type # None =>
              batches[k].notificationType = notification_type[1]}

\* C36: a lookup by id returns the stored batch with that id, and nothing
\* when the id is malformed or no batch has it.  A pending lookup returns
\* nothing or one batch: of the user, pending, of the type asked for when
\* one is given, and the last created of these; never a sent or failed one.
C36_LookupContract ==
    /\ lastCall.op = "get_notification_batch" =>
          /\ lastCall.ret = None <=>
                (lastCall.batch_id = MalformedId
                    \/ lastCall.batch_id \notin 1..Len(batches))
          /\ lastCall.ret # None =>
                /\ Len(lastCall.ret) = 1
                /\ lastCall.ret[1] = batches[lastCall.batch_id]
    /\ lastCall.op = "get_pending_batch_for_user" =>
          LET found == PendingFor(lastCall.user_id, lastCall.notification_type)
          IN  /\ lastCall.ret = None <=> found = {}
              /\ lastCall.ret # None =>
                    /\ Len(lastCall.ret) = 1
                    /\ lastCall.ret[1].status = PENDING
                    /\ lastCall.ret[1].userId = lastCall.user_id
                    /\ \E k \in found :
                          /\ batches[k] = lastCall.ret[1]
                          /\ \A j \in found : j <= k

\* Two different pending batches of one user are stored and a lookup
\* without a type has returned the second.
C36_Witness ==
    /\ lastCall.op = "get_pending_batch_for_user"
    /\ lastCall.notification_type = None
    /\ Len(batches) = 2
    /\ batches[1] # batches[2]
    /\ PendingFor(lastCall.user_id, None) = {1, 2}
    /\ lastCall.ret = Some(batches[2])


\* C37: when a pass is over, notifications_sent and notifications_failed
\* together count no more than the persons of the pass: no person is
\* counted twice.
C37_CountersWithinGroups ==
    \A p \in Passes :
        Completed(p) =>
            pass[p].result.notifications_sent + pass[p].result.notifications_failed
                <= Len(GroupsOf(p))


\* C38: a pass whose fetch returned records ends with success true,
\* whatever failed for its persons; a pass that ends with success false
\* has handled no person.
C38_SuccessUnlessFetchFails ==
    \A p \in Passes :
        pass[p].pc = "done" =>
            /\ (pass[p].fetch = "returned" /\ pass[p].expiring_auths # <<>>) =>
                  pass[p].result.success
            /\ ~pass[p].result.success =>
                  /\ pass[p].trace = <<>>
                  /\ pass[p].result.summary.users_notified = 0

\* Every step that can fail has failed in one pass: the send and the save
\* for one person, the resolution or the dedup read for the other; the
\* pass reports success with three failures and nothing sent.
C38_Witness ==
    \E p \in Passes :
        /\ Completed(p)
        /\ pass[p].result.success
        /\ pass[p].result.notifications_sent = 0
        /\ pass[p].result.notifications_failed = 3
        /\ \E k \in Events(p, "send") : ~pass[p].trace[k].ok
        /\ \E k \in Events(p, "persist") : ~pass[p].trace[k].ok


\* The fields of a batch that no status transition writes.
FrameOf(doc) == [doc EXCEPT !.status = NULL, !.sentAt = NULL, !.error = NULL]

\* C39: a finalise or update call leaves the number of batches, every
\* batch it does not address, and in the addressed batch every field but
\* status, sentAt and error as they were.  An update call that returns
\* gives true exactly when a batch has the id, and has written nothing
\* when it gives false.
C39_TransitionFrame ==
    [][ lastCall'.op \in {"finalise_notification_batch", "update_notification_batch"} =>
          /\ Len(batches') = Len(batches)
          /\ \A k \in 1..Len(batches) :
                /\ k # lastCall'.batch_id => batches'[k] = batches[k]
                /\ FrameOf(batches'[k]) = FrameOf(batches[k])
          /\ (lastCall'.op = "update_notification_batch" /\ ~lastCall'.raised) =>
                /\ lastCall'.ret = (lastCall'.batch_id \in 1..Len(batches))
                /\ lastCall'.ret = FALSE => (batches' = batches /\ notifs' = notifs)
      ]_vars

\* An update call has matched the first of two stored batches and left it
\* failed, with its summaries, next to a pending batch.
C39_Witness ==
    /\ lastCall.op = "update_notification_batch"
    /\ ~lastCall.raised
    /\ lastCall.ret = TRUE
    /\ lastCall.batch_id = 1
    /\ Len(batches) = 2
    /\ batches[1].status = FAILED
    /\ batches[1].error # NULL
    /\ batches[1].auths # <<>>
    /\ batches[2].status = PENDING


\* C40 as stated: an ad-hoc pass that got the person's records considers
\* exactly those in range and of the unit; with none it returns the zero
\* result without asking for the user or sending; otherwise it makes one
\* send attempt and reports notifications_sent + notifications_failed = 1.
C40_AdHocAlwaysOneAttempt ==
    (lastCall.op = "notify_expiring_auths_for_resource" /\ lastCall.fetched) =>
        LET due == InRange(lastCall.resource_id, lastCall.unit_id,
                           lastCall.warning_days)
        IN  /\ due = {} =>
                  /\ lastCall.ret = ZeroResult
                  /\ lastCall.emails = 0
                  /\ ~lastCall.resolved
            /\ due # {} =>
                  /\ lastCall.emails = 1
                  /\ lastCall.auths = {a.id : a \in due}
                  /\ lastCall.ret.notifications_sent
                        + lastCall.ret.notifications_failed = 1

\* C40: an ad-hoc pass that got the person's records considers exactly
\* those in range and of the unit; with none it returns the zero result
\* without asking for the user or sending; otherwise it asks for the user
\* and, when the user is found, makes one send attempt for exactly those
\* records and reports notifications_sent + notifications_failed = 1.
C40_AdHocOneAttemptWhenResolved ==
    (lastCall.op = "notify_expiring_auths_for_resource" /\ lastCall.fetched) =>
        LET due == InRange(lastCall.resource_id, lastCall.unit_id,
                           lastCall.warning_days)
        IN  /\ due = {} =>
                  /\ lastCall.ret = ZeroResult
                  /\ lastCall.emails = 0
                  /\ ~lastCall.resolved
            /\ due # {} => lastCall.resolved
            /\ (due # {} /\ lastCall.ok) =>
                  /\ lastCall.emails = 1
                  /\ lastCall.auths = {a.id : a \in due}
                  /\ lastCall.ret.summary.total_expiring_auths = Cardinality(due)
                  /\ lastCall.ret.notifications_sent
                        + lastCall.ret.notifications_failed = 1

\* An ad-hoc pass for R:A and the other unit has sent one email for the
\* one record R:A has there, leaving out the two of the configured unit
\* that are in range as well.
C40_Witness ==
    /\ lastCall.op = "notify_expiring_auths_for_resource"
    /\ lastCall.resource_id = "R:A"
    /\ lastCall.unit_id = Some("2")
    /\ lastCall.warning_days = 1
    /\ lastCall.emails = 1
    /\ lastCall.auths = {107}
    /\ lastCall.ret.notifications_sent = 1
    /\ InRange("R:A", None, 1) # {}

====
